---------------------------- MODULE Spec2Model ----------------------------
(***************************************************************************)
(* A model of intake_esgf/core.py: the dataset-id pattern and its use by   *)
(* the index clients, combine_results, combine_file_info, and the download *)
(* path (get_file_hash, download_and_verify, parallel_download).           *)
(*                                                                         *)
(* Strings that the code inspects character by character (dataset ids,     *)
(* version tokens) are sequences of one-character strings.  Each part of   *)
(* the program has its own variables and its own specification; a          *)
(* specification leaves the other parts' variables at their initial value. *)
(***************************************************************************)
EXTENDS Integers, Sequences, FiniteSets, TLC

VARIABLES
    \* ---- identifier parsing (get_dataset_pattern, *.search)
    facet_values,   \* the eleven values the id is built from
    dataset_id,     \* the raw id string (dsr.dataset_id, g["subject"])
    m,              \* the groups of re.search(pattern, dataset_id), <<>> for None
    id_pc,          \* "build" -> "search" -> "done"
    \* ---- combine_results
    dfs,            \* the list of parsed tables given to combine_results
    cr_result,      \* what combine_results gave, <<>> before the call
    \* ---- combine_file_info
    indices,        \* the outcome of get_file_info of each index, in order
    fi_result,      \* what combine_file_info gave, <<>> before the call
    \* ---- parallel_download
    root_files,     \* the paths that exist under the read-only data root
    cache_files,    \* path -> [exists, data] under the cache root
    cache_dirs,     \* the directories that exist under the cache root
    task            \* task id -> the state of its parallel_download call

id_vars == <<facet_values, dataset_id, m, id_pc>>

cr_vars == <<dfs, cr_result>>
fi_vars == <<indices, fi_result>>
dl_vars == <<root_files, cache_files, cache_dirs, task>>

other_vars == <<id_vars, cr_vars, fi_vars>>

vars == <<id_vars, cr_vars, fi_vars, dl_vars>>

(***************************************************************************)
(* Helpers on sequences                                                    *)
(***************************************************************************)
Range(s) == {s[i] : i \in 1..Len(s)}

RECURSIVE SeqsUpTo(_, _)
SeqsUpTo(S, n) ==
    IF n = 0 THEN {<<>>}
    ELSE LET shorter == SeqsUpTo(S, n - 1)
         IN  shorter \cup {Append(s, x) : s \in {t \in shorter : Len(t) = n - 1}, x \in S}

RECURSIVE Concat(_)
Concat(ss) == IF ss = <<>> THEN <<>> ELSE Head(ss) \o Concat(Tail(ss))

(***************************************************************************)
(* get_dataset_pattern                                                     *)
(***************************************************************************)
COLUMNS ==
    << "mip_era", "activity_id", "institution_id", "source_id", "experiment_id",
       "member_id", "table_id", "variable_id", "grid_label", "version", "data_node" >>

NCOLUMNS == Len(COLUMNS)

\* \S is any character that is not whitespace
Whitespace == {" ", "\t"}
NonSpace(c) == c \notin Whitespace

\* [^.|] is any character but the two separators
NotSeparator(c) == c \notin {".", "|"}

\* the literal that follows the group of column k: \. between the first ten
\* columns, \| before the last
LiteralAfter(k) == IF k < NCOLUMNS - 1 THEN "." ELSE "|"

\* the last position of the longest run of characters satisfying [^.|]
\* that starts at position j (j - 1 when the run is empty)
RECURSIVE RunEnd(_, _)
RunEnd(s, j) ==
    IF j <= Len(s) /\ NotSeparator(s[j]) THEN RunEnd(s, j + 1) ELSE j - 1

\* the last position of the longest run of \S characters starting at j
RECURSIVE NonSpaceEnd(_, _)
NonSpaceEnd(s, j) ==
    IF j <= Len(s) /\ NonSpace(s[j]) THEN NonSpaceEnd(s, j + 1) ELSE j - 1

\* The pattern from column k on, matched at position i of s: the captured
\* groups of columns k..11, or <<>> when there is no match.  A column before
\* the last is (?P<c>\S[^.|]+) followed by its literal; the quantifier is
\* greedy and backtracks (TryRun gives up one character at a time).  The
\* last column is (?P<data_node>\S+), which ends the pattern.
RECURSIVE MatchColumn(_, _, _), TryRun(_, _, _, _)
MatchColumn(s, i, k) ==
    IF i > Len(s) \/ ~NonSpace(s[i]) THEN <<>>
    ELSE IF k = NCOLUMNS THEN << SubSeq(s, i, NonSpaceEnd(s, i)) >>
    ELSE TryRun(s, i, k, RunEnd(s, i + 1))

TryRun(s, i, k, e) ==
    IF e < i + 1 THEN <<>>
    ELSE IF e + 1 <= Len(s) /\ s[e + 1] = LiteralAfter(k)
         THEN LET rest == MatchColumn(s, e + 2, k + 1)
              IN  IF rest # <<>> THEN << SubSeq(s, i, e) >> \o rest
                  ELSE TryRun(s, i, k, e - 1)
         ELSE TryRun(s, i, k, e - 1)

\* re.search(pattern, s): the match at the leftmost position that has one
RECURSIVE SearchFrom(_, _)
SearchFrom(s, i) ==
    IF i > Len(s) THEN <<>>
    ELSE LET g == MatchColumn(s, i, 1)
         IN  IF g # <<>> THEN g ELSE SearchFrom(s, i + 1)

re_search(s) == SearchFrom(s, 1)

\* m.groupdict(): the captured text of each named group
groupdict(groups) ==
    [c \in Range(COLUMNS) |-> groups[CHOOSE i \in 1..NCOLUMNS : COLUMNS[i] = c]]

\* the canonical grammar: ten values joined by dots, a pipe, the data_node
RECURSIVE JoinDots(_)
JoinDots(vs) ==
    IF Len(vs) = 1 THEN vs[1] ELSE vs[1] \o <<".">> \o JoinDots(Tail(vs))

Canonical(vs) ==
    JoinDots(SubSeq(vs, 1, NCOLUMNS - 1)) \o <<"|">> \o vs[NCOLUMNS]


(***************************************************************************)
(* combine_results                                                         *)
(*                                                                         *)
(* A DataFrame is a sequence of entries [index, row]; a row is a function  *)
(* from column names to values.  The columns of a parsed table are COLUMNS *)
(* followed by "id" (m.groupdict(), then df[-1]["id"] = ...).  The raw id  *)
(* of a parsed record is the string its eleven values were captured from,  *)
(* kept here as the tuple of those values.                                 *)
(***************************************************************************)
DF_COLUMNS == COLUMNS \o <<"id">>

\* df.columns[:-3]
GroupColumns == SubSeq(DF_COLUMNS, 1, Len(DF_COLUMNS) - 3)

\* code points of the characters version tokens are made of
Ord(c) ==
    CASE c = "0" -> 48 [] c = "1" -> 49 [] c = "9" -> 57 [] c = "v" -> 118

\* a < b for Python strings: lexicographic by code point
RECURSIVE StrLess(_, _)
StrLess(a, b) ==
    IF b = <<>> THEN FALSE
    ELSE IF a = <<>> THEN TRUE
    ELSE IF Ord(Head(a)) # Ord(Head(b)) THEN Ord(Head(a)) < Ord(Head(b))
    ELSE StrLess(Tail(a), Tail(b))

\* pd.concat(dfs) ... .reset_index(drop=True): rows in order, index 0..n-1
ResetIndex(rows) == [i \in 1..Len(rows) |-> [index |-> i - 1, row |-> rows[i]]]

\* .drop_duplicates(subset="id"): the first row of each id is kept
DropDuplicatesById(rows) ==
    LET kept(i) == \A j \in 1..(i - 1) : rows[j]["id"] # rows[i]["id"]
        RECURSIVE From(_)
        From(i) == IF i > Len(rows) THEN <<>>
                   ELSE IF kept(i) THEN <<rows[i]>> \o From(i + 1)
                   ELSE From(i + 1)
    IN  From(1)

\* df.drop(index)
DropIndex(df, idx) == SelectSeq(df, LAMBDA e : e.index \notin idx)

GroupKey(row) == [i \in 1..Len(GroupColumns) |-> row[GroupColumns[i]]]

\* df.groupby(list(df.columns[:-3])): the groups, each a sub-frame in row order
GroupBy(df) ==
    { SelectSeq(df, LAMBDA e : GroupKey(e.row) = k) :
        k \in {GroupKey(df[i].row) : i \in 1..Len(df)} }

\* grp.version.min(): the oldest version instead of the newest
VersionMin(grp) ==
    CHOOSE v \in {grp[i].row["version"] : i \in 1..Len(grp)} :
        \A j \in 1..Len(grp) : ~StrLess(grp[j].row["version"], v)

\* grp.version.max()
VersionMax(grp) ==
    CHOOSE v \in {grp[i].row["version"] : i \in 1..Len(grp)} :
        \A j \in 1..Len(grp) : ~StrLess(v, grp[j].row["version"])

\* grp[grp.version != grp.version.max()].index
OlderIndex(grp) ==
    {grp[i].index : i \in {j \in 1..Len(grp) : grp[j].row["version"] # VersionMax(grp)}}

\* first loop: for lbl, grp in df.groupby(...): df = df.drop(older rows of grp)
RECURSIVE DropOlderVersions(_, _)
DropOlderVersions(df, grps) ==
    IF grps = {} THEN df
    ELSE LET grp == CHOOSE g \in grps : TRUE
         IN  DropOlderVersions(DropIndex(df, OlderIndex(grp)), grps \ {grp})

\* the id of the group's first row alone, as a list
IdListOfFirst(grp) == << grp[1].row["id"] >>

\* grp.id.to_list()
IdList(grp) == [i \in 1..Len(grp) |-> grp[i].row["id"]]

\* second loop: df = df.drop(grp.iloc[1:].index); df.loc[grp.index[0], "id"] = ids
RECURSIVE GroupsToList(_, _)
GroupsToList(df, grps) ==
    IF grps = {} THEN df
    ELSE LET grp     == CHOOSE g \in grps : TRUE
             dropped == DropIndex(df, {grp[i].index : i \in 2..Len(grp)})
             set     == [i \in 1..Len(dropped) |->
                            IF dropped[i].index = grp[1].index
                            THEN [dropped[i] EXCEPT !.row["id"] = IdList(grp)]
                            ELSE dropped[i]]
         IN  GroupsToList(set, grps \ {grp})

\* df.drop(columns="data_node")
DropDataNode(df) ==
    [i \in 1..Len(df) |->
        [df[i] EXCEPT !.row = [c \in (DOMAIN df[i].row) \ {"data_node"} |-> df[i].row[c]]]]

\* combine_results(dfs): [raised |-> exception] or [df |-> the combined frame].
\* A table with no rows has no columns (pd.DataFrame([])), so when every
\* table is empty pandas raises: there is no "id" column to drop duplicates
\* by and no column to group by.
combine_results(tables) ==
    IF tables = <<>> THEN [raised |-> "ValueError"]
    ELSE IF Concat(tables) = <<>> THEN [raised |-> "PandasError"]
    ELSE LET df0 == ResetIndex(DropDuplicatesById(Concat(tables)))
             df1 == DropOlderVersions(df0, GroupBy(df0))
             df2 == GroupsToList(df1, GroupBy(df1))
         IN  [df |-> DropDataNode(df2)]


(***************************************************************************)
(* combine_file_info                                                       *)
(*                                                                         *)
(* An info is a function from its keys to values.  get_file_info gives     *)
(* every info the four scalar keys and one list per link type it has, so   *)
(* isinstance(val, list) holds exactly of the link-type keys.  A dict that *)
(* keeps insertion order (merged_info) is the sequence of its values; the  *)
(* key of a value is its "path".                                           *)
(***************************************************************************)
ScalarKeys == {"checksum_type", "checksum", "size", "path"}

\* isinstance(val, list) for the value an info holds under key
IsList(key) == key \notin ScalarKeys

\* the position of path in merged_info, 0 when path not in merged_info
PathPos(merged, path) ==
    IF \E i \in 1..Len(merged) : merged[i]["path"] = path
    THEN CHOOSE i \in 1..Len(merged) : merged[i]["path"] = path
    ELSE 0

\* a list that replaces the list already there instead of extending it
MergedValueReplaced(old, info, key) ==
    IF key \notin DOMAIN old THEN info[key]
    ELSE IF IsList(key) THEN info[key]
    ELSE old[key]

\* the value merged_info[path][key] takes for the key of an info: a list
\* extends the list already there, a scalar is set only when the key is new
MergedValue(old, info, key) ==
    IF key \notin DOMAIN old THEN info[key]
    ELSE IF IsList(key) THEN old[key] \o info[key]
    ELSE old[key]

\* the body of "for info in infos"
MergeInfo(merged, info) ==
    LET pos == PathPos(merged, info["path"])
        old == IF pos = 0 THEN <<>> ELSE merged[pos]
        new == [key \in (DOMAIN old) \cup (DOMAIN info) |->
                   IF key \in DOMAIN info THEN MergedValue(old, info, key)
                   ELSE old[key]]
    IN  IF pos = 0 THEN Append(merged, new) ELSE [merged EXCEPT ![pos] = new]

RECURSIVE MergeInfos(_, _)
MergeInfos(merged, infos) ==
    IF infos = <<>> THEN merged
    ELSE MergeInfos(MergeInfo(merged, Head(infos)), Tail(infos))

\* what ind.get_file_info(dataset_ids) does is the index's outcome:
\* [infos |-> the list it returns] or [raised |-> the exception it raises]
Raises(outcome) == "raised" \in DOMAIN outcome

\* except EsgfSearchException: continue
Caught(exc) == exc = "EsgfSearchException"

\* combine_file_info(indices, dataset_ids) from index i on:
\* [returned |-> the list of merged infos] or [raised |-> exception]
RECURSIVE CombineFrom(_, _, _)
CombineFrom(inds, i, merged) ==
    IF i > Len(inds) THEN [returned |-> merged]
    ELSE IF Raises(inds[i])
         THEN IF Caught(inds[i].raised)
              THEN CombineFrom(inds, i + 1, merged)
              ELSE [raised |-> inds[i].raised]
         ELSE CombineFrom(inds, i + 1, MergeInfos(merged, inds[i].infos))

combine_file_info(inds) == CombineFrom(inds, 1, <<>>)


(***************************************************************************)
(* get_file_hash, download_and_verify, parallel_download                   *)
(*                                                                         *)
(* A file's content is the sequence of its bytes.  The cache is a function *)
(* from relative paths to [exists, data]; cache_dirs is the set of         *)
(* directories that exist under the cache root.  A relative path is        *)
(* [dir, name]: the directory the template renders and the file's title.   *)
(***************************************************************************)
PathList ==
    << [dir |-> "d1", name |-> "f1.nc"],
       [dir |-> "d1", name |-> "f2.nc"],
       [dir |-> "d2", name |-> "f3.nc"] >>

Paths == Range(PathList)

NoFile == [exists |-> FALSE, data |-> <<>>]

\* hashlib.algorithms_available (the ones the model's files name)
algorithms_available == {"sha256", "md5"}

\* str.lower() on the algorithm names the model's files declare
Lower(name) ==
    CASE name = "SHA256" -> "sha256"
      [] name = "MD5" -> "md5"
      [] name = "ADLER32" -> "adler32"
      [] OTHER -> name

\* sha.update(data) over the bytes read, then hexdigest(): a digest that
\* depends on the algorithm and on every byte and its position
RECURSIVE Update(_, _, _, _)
Update(h, mult, modulus, data) ==
    IF data = <<>> THEN h
    ELSE Update((h * mult + Head(data)) % modulus, mult, modulus, Tail(data))

Digest(algorithm, data) ==
    IF algorithm = "sha256" THEN Update(7, 31, 251, data)
    ELSE Update(3, 17, 241, data)

\* get_file_hash(filepath, algorithm): <<"AssertionError">> when the assert
\* fails, else <<"ok", the digest of what the file holds>>
get_file_hash(data, algorithm) ==
    IF Lower(algorithm) \notin algorithms_available THEN <<"AssertionError">>
    ELSE <<"ok", Digest(Lower(algorithm), data)>>

\* the content the catalog's checksums were computed from
TrueContent == <<1, 2>>

\* the servers behind the mirror URLs: the status of the response, the
\* chunks resp.iter_content yields, and whether the connection breaks
\* (requests raises ConnectionError) once they have been yielded
Server(url) ==
    CASE url = "https://good/"  ->
            [status |-> 200, chunks |-> << <<1>>, <<>>, <<2>> >>, breaks |-> FALSE]
      [] url = "https://stale/" ->
            [status |-> 200, chunks |-> << <<1>>, <<3>> >>, breaks |-> FALSE]
      [] url = "https://drop/"  ->
            [status |-> 200, chunks |-> << <<1>> >>, breaks |-> TRUE]
      [] url = "https://gone/"  ->
            [status |-> 404, chunks |-> <<>>, breaks |-> FALSE]

URLS == {"https://good/", "https://stale/", "https://drop/", "https://gone/"}

\* the checksum algorithm and checksum the catalog declares for each file
ChecksumType(path) ==
    CASE path.name = "f1.nc" -> "SHA256"
      [] path.name = "f2.nc" -> "MD5"
      [] path.name = "f3.nc" -> "ADLER32"

Checksum(path) ==
    IF Lower(ChecksumType(path)) \in algorithms_available
    THEN Digest(Lower(ChecksumType(path)), TrueContent)
    ELSE 99

\* the key a caller requests a file under
Key(path) == <<"tas", path.name>>

\* the info dict of a file, as parallel_download reads it
Info(path, mirrors) ==
    [ key |-> Key(path), path |-> path, HTTPServer |-> mirrors,
      checksum |-> Checksum(path), checksum_type |-> ChecksumType(path),
      size |-> Len(TrueContent) ]

\* what a call of parallel_download ends with
Pending == <<"pending">>
Returned(key, local_file) == <<"returned", key, local_file>>
Raised(exc) == <<"raised", exc>>

\* esg_dataroot / path and local_cache / path
UnderRoot(path) == <<"esg_dataroot", path>>
UnderCache(path) == <<"local_cache", path>>

\* resp.raise_for_status() raises HTTPError for a 4xx or 5xx status
RaiseForStatus(status) == status >= 400

\* mkdir without exist_ok=True raises FileExistsError when the directory is there
MkdirRaisesWhenThere(dirs, d) == d \in dirs

\* local_file.parent.mkdir(parents=True, exist_ok=True) raises
\* FileExistsError never: exist_ok=True accepts a directory that is there
MkdirRaises(dirs, d) == FALSE

\* fdl.write(chunk) under "if chunk:"
WriteChunk(data, chunk) == IF chunk # <<>> THEN data \o chunk ELSE data


\* a parallel_download call at its first line: its arguments, where it is,
\* and what it has done so far (the requests it made, the digests it
\* computed, the changes it made under the cache root)
NewTask(info, esg_dataroot) ==
    [ pc |-> "start", info |-> info, esg_dataroot |-> esg_dataroot,
      url |-> 0, chunk |-> 0, result |-> Pending,
      requests |-> <<>>, hashes |-> 0, changes |-> 0 ]

Idle == [NewTask(<<>>, "None") EXCEPT !.pc = "idle"]

LocalFile(t) == task[t].info.path
Url(t) == task[t].info.HTTPServer[task[t].url]

Return(T, local_file) ==
    [T EXCEPT !.pc = "done", !.result = Returned(T.info.key, local_file)]
Raise(T, exc) == [T EXCEPT !.pc = "done", !.result = Raised(exc)]

\* a caller invokes parallel_download(info, local_cache, esg_dataroot) on a
\* worker that has no call running
Invoke(t, info, esg_dataroot) ==
    /\ task[t].pc \in {"idle", "done"}
    /\ task' = [task EXCEPT ![t] = NewTask(info, esg_dataroot)]
    /\ UNCHANGED <<root_files, cache_files, cache_dirs>>
    /\ UNCHANGED other_vars

\* the two exists() checks in the other order: the cache before the data root
LocalCopyCacheFirst(esg_dataroot, path, in_root, in_cache) ==
    IF in_cache[path].exists THEN UnderCache(path)
    ELSE IF esg_dataroot # "None" /\ path \in in_root THEN UnderRoot(path)
    ELSE <<>>

\* parallel_download, the two exists() checks, the data root before the
\* cache: the local file the call returns, <<>> when it has to download
LocalCopy(esg_dataroot, path, in_root, in_cache) ==
    IF esg_dataroot # "None" /\ path \in in_root THEN UnderRoot(path)
    ELSE IF in_cache[path].exists THEN UnderCache(path)
    ELSE <<>>

CheckLocal(t) ==
    /\ task[t].pc = "start"
    /\ task' = [task EXCEPT ![t] =
                  LET copy == LocalCopy(@.esg_dataroot, LocalFile(t), root_files, cache_files)
                  IN  IF copy # <<>> THEN Return(@, copy)
                      ELSE [@ EXCEPT !.pc = "for", !.url = 1]]
    /\ UNCHANGED <<root_files, cache_files, cache_dirs>>
    /\ UNCHANGED other_vars

\* for url in info["HTTPServer"]: the next url, or the return after the loop
NextUrl(t) ==
    /\ task[t].pc = "for"
    /\ task' = [task EXCEPT ![t] =
                  IF @.url > Len(@.info.HTTPServer)
                  THEN Return(@, UnderCache(LocalFile(t)))
                  ELSE [@ EXCEPT !.pc = "mkdir"]]
    /\ UNCHANGED <<root_files, cache_files, cache_dirs>>
    /\ UNCHANGED other_vars

\* download_and_verify: local_file.parent.mkdir(parents=True, exist_ok=True)
Mkdir(t) ==
    /\ task[t].pc = "mkdir"
    /\ IF MkdirRaises(cache_dirs, LocalFile(t).dir)
       THEN /\ task' = [task EXCEPT ![t] = Raise(@, "FileExistsError")]
            /\ UNCHANGED cache_dirs
       ELSE /\ task' = [task EXCEPT ![t].pc = "get", ![t].changes = @ + 1]
            /\ cache_dirs' = cache_dirs \cup {LocalFile(t).dir}
    /\ UNCHANGED <<root_files, cache_files>>
    /\ UNCHANGED other_vars

\* download_and_verify: requests.get(url, stream=True); resp.raise_for_status()
Get(t) ==
    /\ task[t].pc = "get"
    /\ task' = [task EXCEPT ![t] =
                  LET T == [@ EXCEPT !.requests = Append(@, Url(t))]
                  IN  IF RaiseForStatus(Server(Url(t)).status)
                      THEN Raise(T, "HTTPError")
                      ELSE [T EXCEPT !.pc = "open"]]
    /\ UNCHANGED <<root_files, cache_files, cache_dirs>>
    /\ UNCHANGED other_vars

\* download_and_verify: open(local_file, "wb") creates or truncates the file
Open(t) ==
    /\ task[t].pc = "open"
    /\ cache_files' = [cache_files EXCEPT ![LocalFile(t)] = [exists |-> TRUE, data |-> <<>>]]
    /\ task' = [task EXCEPT ![t].pc = "write", ![t].chunk = 0, ![t].changes = @ + 1]
    /\ UNCHANGED <<root_files, cache_dirs>>
    /\ UNCHANGED other_vars

\* download_and_verify: one turn of "for chunk in resp.iter_content(...)":
\* the next chunk is written, or the stream ends, or the connection breaks
\* (the exception leaves the with blocks, which close the file)
Write(t) ==
    /\ task[t].pc = "write"
    /\ LET server == Server(Url(t))
           n      == task[t].chunk + 1
       IN  IF n <= Len(server.chunks)
           THEN /\ cache_files' = [cache_files EXCEPT ![LocalFile(t)].data =
                                      WriteChunk(@, server.chunks[n])]
                /\ task' = [task EXCEPT ![t].chunk = n, ![t].changes = @ + 1]
           ELSE /\ task' = [task EXCEPT ![t] =
                              IF server.breaks THEN Raise(@, "ConnectionError")
                              ELSE [@ EXCEPT !.pc = "hash"]]
                /\ UNCHANGED cache_files
    /\ UNCHANGED <<root_files, cache_dirs>>
    /\ UNCHANGED other_vars

\* download_and_verify: get_file_hash(local_file, hash_algorithm) != hash
Hash(t) ==
    /\ task[t].pc = "hash"
    /\ task' = [task EXCEPT ![t] =
                  LET got == get_file_hash(cache_files[LocalFile(t)].data, @.info.checksum_type)
                  IN  IF got[1] # "ok" THEN Raise(@, got[1])
                      ELSE IF got[2] # @.info.checksum
                      THEN [@ EXCEPT !.pc = "unlink", !.hashes = @ + 1]
                      ELSE [@ EXCEPT !.pc = "exists", !.hashes = @ + 1]]
    /\ UNCHANGED <<root_files, cache_files, cache_dirs>>
    /\ UNCHANGED other_vars

\* download_and_verify: local_file.unlink(); raise ValueError(...).  Nothing
\* in parallel_download catches it: the call ends with the exception.
Unlink(t) ==
    /\ task[t].pc = "unlink"
    /\ cache_files' = [cache_files EXCEPT ![LocalFile(t)] = NoFile]
    /\ task' = [task EXCEPT ![t] = Raise([@ EXCEPT !.changes = @ + 1], "ValueError")]
    /\ UNCHANGED <<root_files, cache_dirs>>
    /\ UNCHANGED other_vars

\* parallel_download: if local_file.exists(): break, and the return
Exists(t) ==
    /\ task[t].pc = "exists"
    /\ task' = [task EXCEPT ![t] =
                  IF cache_files[LocalFile(t)].exists
                  THEN Return(@, UnderCache(LocalFile(t)))
                  ELSE [@ EXCEPT !.pc = "for", !.url = @ + 1]]
    /\ UNCHANGED <<root_files, cache_files, cache_dirs>>
    /\ UNCHANGED other_vars


\* what the stream of a server leaves in a file opened empty: every chunk
\* it yields, written in order
RECURSIVE WriteAll(_, _)
WriteAll(data, chunks) ==
    IF chunks = <<>> THEN data
    ELSE WriteAll(WriteChunk(data, Head(chunks)), Tail(chunks))

\* parallel_download(info, local_cache) run from its first line to its end
\* with nothing else running, from mirror i on, on a destination that holds
\* file and a cache that has the directories dirs: what the call ends with
\* and what the destination holds then
RECURSIVE RunFrom(_, _, _, _)
RunFrom(info, i, file, dirs) ==
    IF i > Len(info.HTTPServer)
    THEN [result |-> Returned(info.key, UnderCache(info.path)), file |-> file]
    ELSE IF MkdirRaises(dirs, info.path.dir)
    THEN [result |-> Raised("FileExistsError"), file |-> file]
    ELSE LET server  == Server(info.HTTPServer[i])
             written == [exists |-> TRUE, data |-> WriteAll(<<>>, server.chunks)]
             got     == get_file_hash(written.data, info.checksum_type)
         IN  IF RaiseForStatus(server.status)
             THEN [result |-> Raised("HTTPError"), file |-> file]
             ELSE IF server.breaks
             THEN [result |-> Raised("ConnectionError"), file |-> written]
             ELSE IF got[1] # "ok"
             THEN [result |-> Raised(got[1]), file |-> written]
             ELSE IF got[2] # info.checksum
             THEN [result |-> Raised("ValueError"), file |-> NoFile]
             ELSE IF written.exists
             THEN [result |-> Returned(info.key, UnderCache(info.path)), file |-> written]
             ELSE RunFrom(info, i + 1, written, dirs \cup {info.path.dir})

\* the call alone on an empty cache, with no data root
RunAlone(info) == RunFrom(info, 1, NoFile, {})

(***************************************************************************)
(* The inputs the specifications draw from, and their bounds               *)
(***************************************************************************)
\* the longest facet value an identifier is built from
MaxFacetLen == 2
\* the most rows the tables given to combine_results hold together
MaxRecords == 3
\* the most indices combine_file_info is given, and the most infos they
\* return together
MaxIndices == 3
MaxInfos == 3
\* the longest mirror list of a file
MaxMirrors == 2
\* the number of parallel_download calls that run at once
NTasks == 2

NotCalled == [pending |-> TRUE]

\* facet values: the non-empty strings over a letter and a blank
FacetValues == SeqsUpTo({"a", " "}, MaxFacetLen) \ {<<>>}

IdOff ==
    /\ facet_values = <<>>
    /\ dataset_id = <<>>
    /\ m = <<>>
    /\ id_pc = "off"

\* a parsed record: what m.groupdict() and df[-1]["id"] = dataset_id give
Row(source_id, version, data_node) ==
    LET values == << "CMIP6", "CMIP", "NCAR", source_id, "historical", "r1i1p1f1",
                     "Amon", "tas", "gn", version, data_node >>
    IN  [c \in Range(DF_COLUMNS) |->
            IF c = "id" THEN values
            ELSE values[CHOOSE i \in 1..NCOLUMNS : COLUMNS[i] = c]]

\* version tokens of different lengths: as strings, "v10" < "v9"
Versions == { <<"v", "9">>, <<"v", "1", "0">> }

Rows == { Row(s, v, n) : s \in {"CESM2", "MIROC6"}, v \in Versions, n \in {"nodeA", "nodeB"} }

CrOff ==
    /\ dfs = <<>>
    /\ cr_result = NotCalled

\* the infos an index returns for a file: the two differ in every scalar
\* but the path, and in the link types they have
InfoA(path) ==
    [ checksum_type |-> "SHA256", checksum |-> "c1", size |-> 10, path |-> path,
      HTTPServer |-> <<"u1">> ]
InfoB(path) ==
    [ checksum_type |-> "MD5", checksum |-> "c2", size |-> 20, path |-> path,
      HTTPServer |-> <<"u2", "u1">>, OPENDAP |-> <<"u3">> ]

FileInfos == UNION { {InfoA(p), InfoB(p)} : p \in {"d1/f1.nc", "d1/f2.nc"} }

Exceptions == {"EsgfSearchException", "ValueError", "ConnectionError"}

FiOff ==
    /\ indices = <<>>
    /\ fi_result = NotCalled

MirrorLists == SeqsUpTo(URLS, MaxMirrors)

DlOff ==
    /\ root_files = {}
    /\ cache_files = [p \in Paths |-> NoFile]
    /\ cache_dirs = {}
    /\ task = <<>>

(***************************************************************************)
(* Specification of the identifier parser: a string of the canonical       *)
(* grammar is built and searched as SolrESGFIndex.search and               *)
(* GlobusESGFIndex.search do.  The eleven values are one value everywhere  *)
(* but at one position, which has a value of its own.                      *)
(***************************************************************************)
InitIdentifier ==
    /\ \E common \in FacetValues, other \in FacetValues, at \in 1..NCOLUMNS :
          facet_values = [i \in 1..NCOLUMNS |-> IF i = at THEN other ELSE common]
    /\ dataset_id = <<>>
    /\ m = <<>>
    /\ id_pc = "build"
    /\ CrOff /\ FiOff /\ DlOff

BuildId ==
    /\ id_pc = "build"
    /\ dataset_id' = Canonical(facet_values)
    /\ id_pc' = "search"
    /\ UNCHANGED <<facet_values, m, cr_vars, fi_vars, dl_vars>>

\* m = re.search(pattern, dsr.dataset_id)
Search ==
    /\ id_pc = "search"
    /\ m' = re_search(dataset_id)
    /\ id_pc' = "done"
    /\ UNCHANGED <<facet_values, dataset_id, cr_vars, fi_vars, dl_vars>>

NextIdentifier == BuildId \/ Search

SpecIdentifier == InitIdentifier /\ [][NextIdentifier]_vars

(***************************************************************************)
(* Specification of combine_results: tables of parsed records are put      *)
(* together, then combine_results is called on them.                       *)
(***************************************************************************)
InitReconcile ==
    /\ dfs = <<>>
    /\ cr_result = NotCalled
    /\ IdOff /\ FiOff /\ DlOff

NRows(tables) == Len(Concat(tables))

\* the indices whose search() gives a table: one of each class
SearchedIndices == {"SolrESGFIndex", "GlobusESGFIndex"}

\* an index's search() returned a table, so far without rows
AddTable ==
    /\ cr_result = NotCalled
    /\ Len(dfs) < Cardinality(SearchedIndices)
    /\ dfs' = Append(dfs, <<>>)
    /\ UNCHANGED <<cr_result, id_vars, fi_vars, dl_vars>>

\* one more parsed record in the last table
AddRow(r) ==
    /\ cr_result = NotCalled
    /\ dfs # <<>>
    /\ NRows(dfs) < MaxRecords
    /\ dfs' = [dfs EXCEPT ![Len(dfs)] = Append(@, r)]
    /\ UNCHANGED <<cr_result, id_vars, fi_vars, dl_vars>>

CombineResults ==
    /\ cr_result = NotCalled
    /\ cr_result' = combine_results(dfs)
    /\ UNCHANGED <<dfs, id_vars, fi_vars, dl_vars>>

NextReconcile ==
    \/ AddTable
    \/ \E r \in Rows : AddRow(r)
    \/ CombineResults

SpecReconcile == InitReconcile /\ [][NextReconcile]_vars

(***************************************************************************)
(* Specification of combine_file_info: the indices and what each one's     *)
(* get_file_info does are put together, then combine_file_info is called.  *)
(***************************************************************************)
InitMerge ==
    /\ indices = <<>>
    /\ fi_result = NotCalled
    /\ IdOff /\ CrOff /\ DlOff

NInfos(inds) ==
    Len(Concat([i \in 1..Len(inds) |-> IF Raises(inds[i]) THEN <<>> ELSE inds[i].infos]))

\* one more index, whose get_file_info raises exc
AddFailingIndex(exc) ==
    /\ fi_result = NotCalled
    /\ Len(indices) < MaxIndices
    /\ indices' = Append(indices, [raised |-> exc])
    /\ UNCHANGED <<fi_result, id_vars, cr_vars, dl_vars>>

\* one more index, whose get_file_info returns a list
AddIndex ==
    /\ fi_result = NotCalled
    /\ Len(indices) < MaxIndices
    /\ indices' = Append(indices, [infos |-> <<>>])
    /\ UNCHANGED <<fi_result, id_vars, cr_vars, dl_vars>>

\* one more info in the list the last index returns
AddInfo(info) ==
    /\ fi_result = NotCalled
    /\ indices # <<>>
    /\ ~Raises(indices[Len(indices)])
    /\ NInfos(indices) < MaxInfos
    /\ indices' = [indices EXCEPT ![Len(indices)].infos = Append(@, info)]
    /\ UNCHANGED <<fi_result, id_vars, cr_vars, dl_vars>>

CombineFileInfo ==
    /\ fi_result = NotCalled
    /\ fi_result' = combine_file_info(indices)
    /\ UNCHANGED <<indices, id_vars, cr_vars, dl_vars>>

NextMerge ==
    \/ \E exc \in Exceptions : AddFailingIndex(exc)
    \/ AddIndex
    \/ \E info \in FileInfos : AddInfo(info)
    \/ CombineFileInfo

SpecMerge == InitMerge /\ [][NextMerge]_vars


(***************************************************************************)
(* Specification of parallel_download called again and again by one        *)
(* worker, each call run to its end before the next, on a cache that       *)
(* starts empty.  The data root holds some files and never changes.        *)
(***************************************************************************)
DataRoots == {"None", "/esg_dataroot"}

RootCandidates == { [dir |-> "d1", name |-> "f1.nc"] }

\* the files the worker is asked for: one whose algorithm hashlib has, one
\* whose algorithm it has not
Requested == { p \in Paths : p.name # "f2.nc" }

Init ==
    /\ root_files \in SUBSET RootCandidates
    /\ cache_files = [p \in Paths |-> NoFile]
    /\ cache_dirs = {}
    /\ task = [t \in {1} |-> Idle]
    /\ IdOff /\ CrOff /\ FiOff

Next ==
    \/ \E t \in DOMAIN task, path \in Requested,
          mirrors \in MirrorLists, esg_dataroot \in DataRoots :
            Invoke(t, Info(path, mirrors), esg_dataroot)
    \/ \E t \in DOMAIN task : CheckLocal(t)
    \/ \E t \in DOMAIN task : NextUrl(t)
    \/ \E t \in DOMAIN task : Mkdir(t)
    \/ \E t \in DOMAIN task : Get(t)
    \/ \E t \in DOMAIN task : Open(t)
    \/ \E t \in DOMAIN task : Write(t)
    \/ \E t \in DOMAIN task : Hash(t)
    \/ \E t \in DOMAIN task : Unlink(t)
    \/ \E t \in DOMAIN task : Exists(t)

Spec == Init /\ [][Next]_vars


(***************************************************************************)
(* Specification of parallel_download calls that run at once, one per      *)
(* worker, for files with different paths, on a cache that starts empty    *)
(* and with no data root.  The steps of the calls interleave.  The mirror  *)
(* lists are the ones in which the first mirror verifies, or fails in one  *)
(* of its ways before a mirror that would verify, and the empty list.      *)
(***************************************************************************)
ParallelMirrorLists ==
    {<<>>, <<"https://good/">>} \cup
    { <<u, "https://good/">> : u \in URLS \ {"https://good/"} }

InitParallel ==
    /\ root_files = {}
    /\ cache_files = [p \in Paths |-> NoFile]
    /\ cache_dirs = {}
    /\ \E lists \in [1..NTasks -> ParallelMirrorLists],
          paths \in {f \in [1..NTasks -> Paths] :
                        \A a, b \in 1..NTasks : a # b => f[a] # f[b]} :
          task = [t \in 1..NTasks |-> NewTask(Info(paths[t], lists[t]), "None")]
    /\ IdOff /\ CrOff /\ FiOff

NextParallel ==
    \/ \E t \in DOMAIN task : CheckLocal(t)
    \/ \E t \in DOMAIN task : NextUrl(t)
    \/ \E t \in DOMAIN task : Mkdir(t)
    \/ \E t \in DOMAIN task : Get(t)
    \/ \E t \in DOMAIN task : Open(t)
    \/ \E t \in DOMAIN task : Write(t)
    \/ \E t \in DOMAIN task : Hash(t)
    \/ \E t \in DOMAIN task : Unlink(t)
    \/ \E t \in DOMAIN task : Exists(t)

SpecParallel == InitParallel /\ [][NextParallel]_vars


(***************************************************************************)
(* Properties of parallel_download                                         *)
(***************************************************************************)
\* the bytes a mirror serves when its response is complete
Body(url) == WriteAll(<<>>, Server(url).chunks)
Delivers(url) == ~RaiseForStatus(Server(url).status) /\ ~Server(url).breaks

\* the mirror's bytes hash to the checksum the info declares
BytesMatch(info, url) ==
    Delivers(url) /\ get_file_hash(Body(url), info.checksum_type) = <<"ok", info.checksum>>

\* the call reached the download phase: neither local copy was there
Downloaded(T) == T.requests # <<>>

\* C1: a call that has to download, whose first mirror serves bytes that do
\* not hash to the declared checksum and whose second mirror serves bytes
\* that do, returns (key, cache path) and the destination holds the second
\* mirror's bytes.
C1_MirrorFallback ==
    \A t \in DOMAIN task :
        LET T == task[t]
        IN  ( /\ T.pc = "done"
              /\ Downloaded(T)
              /\ Len(T.info.HTTPServer) >= 2
              /\ Delivers(T.info.HTTPServer[1])
              /\ ~BytesMatch(T.info, T.info.HTTPServer[1])
              /\ BytesMatch(T.info, T.info.HTTPServer[2]) )
            => /\ T.result = Returned(T.info.key, UnderCache(T.info.path))
               /\ cache_files[T.info.path] =
                     [exists |-> TRUE, data |-> Body(T.info.HTTPServer[2])]

\* C2: when no call is running, every file in the cache has the digest that
\* the catalog declares for it, under the algorithm the catalog declares.
C2_NoUnverifiedFile ==
    (\A t \in DOMAIN task : task[t].pc \in {"idle", "done"})
    => \A p \in Paths :
          cache_files[p].exists
          => get_file_hash(cache_files[p].data, ChecksumType(p)) = <<"ok", Checksum(p)>>

\* C3: a call given a data root under which its path exists makes no
\* request, computes no digest and changes nothing under the cache, and it
\* returns (key, root/path), also when cache/path exists.
C3_LocalRootShortCircuit ==
    \A t \in DOMAIN task :
        LET T == task[t]
        IN  (T.pc # "idle" /\ T.esg_dataroot # "None" /\ T.info.path \in root_files)
            => /\ T.pc \in {"start", "done"}
               /\ T.requests = <<>>
               /\ T.hashes = 0
               /\ T.changes = 0
               /\ T.pc = "done" => T.result = Returned(T.info.key, UnderRoot(T.info.path))

\* a call with mirrors has returned the copy under the data root while the
\* cache holds the file too
C3_Witness ==
    \E t \in DOMAIN task :
        /\ task[t].pc = "done"
        /\ task[t].esg_dataroot # "None"
        /\ task[t].info.path \in root_files
        /\ task[t].info.HTTPServer # <<>>
        /\ cache_files[task[t].info.path].exists
        /\ task[t].result = Returned(task[t].info.key, UnderRoot(task[t].info.path))

\* C8: a call that has to download and none of whose mirrors serves bytes
\* that hash to the declared checksum requests every url of its list once,
\* in list order, and then ends as failed.
C8_MirrorExhaustion ==
    \A t \in DOMAIN task :
        LET T == task[t]
        IN  ( /\ T.pc = "done"
              /\ Downloaded(T)
              /\ \A i \in 1..Len(T.info.HTTPServer) : ~BytesMatch(T.info, T.info.HTTPServer[i]) )
            => /\ T.requests = T.info.HTTPServer
               /\ T.result[1] = "raised"

\* C10: with calls for different paths running at once, a call that has
\* ended has the outcome, and its destination the content, that the call
\* has when run alone; when all have ended the cache holds exactly the
\* files the calls leave when run alone.
C10_Independence ==
    /\ \A t \in DOMAIN task :
          task[t].pc = "done"
          => /\ task[t].result = RunAlone(task[t].info).result
             /\ cache_files[task[t].info.path] = RunAlone(task[t].info).file
    /\ (\A t \in DOMAIN task : task[t].pc = "done")
       => \A p \in Paths :
             cache_files[p] =
                IF \E t \in DOMAIN task : task[t].info.path = p
                THEN RunAlone(task[CHOOSE t \in DOMAIN task : task[t].info.path = p].info).file
                ELSE NoFile

\* two calls whose files share a directory have both ended, one with its
\* file verified and one with its exception, and both made the directory
C10_Witness ==
    \E a, b \in DOMAIN task :
        /\ a # b
        /\ task[a].pc = "done" /\ task[b].pc = "done"
        /\ task[a].info.path.dir = task[b].info.path.dir
        /\ task[a].result[1] = "returned" /\ cache_files[task[a].info.path].exists
        /\ task[b].result[1] = "raised"
        /\ task[a].changes > 0 /\ task[b].changes > 0


(***************************************************************************)
(* Properties of the identifier pattern                                    *)
(***************************************************************************)
\* the captured facets joined by dots, a pipe, the captured data_node
Rejoin(d) == Canonical([i \in 1..NCOLUMNS |-> d[COLUMNS[i]]])

\* C7: for every string of the canonical grammar whose values are non-empty
\* and hold neither a dot nor a pipe, re.search with the pattern matches,
\* the captured groups rejoined give the string back, and no captured facet
\* holds a dot or a pipe.
C7_RoundTrip ==
    id_pc = "done"
    => /\ m # <<>>
       /\ Rejoin(groupdict(m)) = dataset_id
       /\ \A i \in 1..(NCOLUMNS - 1) : \A j \in 1..Len(m[i]) : NotSeparator(m[i][j])

(***************************************************************************)
(* Properties of combine_results                                           *)
(***************************************************************************)
\* the records given, in the order of the concatenated tables
Given == Concat(dfs)

FacetGroup(row) == [c \in Range(GroupColumns) |-> row[c]]

\* the records of the facet group of row, and whether v is the greatest of
\* their versions in the order of Python strings
SameGroup(row) == {i \in 1..Len(Given) : FacetGroup(Given[i]) = FacetGroup(row)}
IsGreatestVersion(v, row) ==
    /\ \E i \in SameGroup(row) : Given[i]["version"] = v
    /\ \A i \in SameGroup(row) : ~StrLess(v, Given[i]["version"])

Combined == cr_result.df

\* C4: when the tables hold records, combine_results returns a table with
\* exactly one row for each combination of the nine facets other than
\* version and data_node that occurs in them; the row's version is the
\* greatest version given for the combination, and no id of a record with a
\* lower version is in any row's id list.
C4_OneRowPerDatasetAtMaxVersion ==
    (cr_result # NotCalled /\ Given # <<>>)
    => /\ "df" \in DOMAIN cr_result
       /\ \A i \in 1..Len(Given) :
             Cardinality({k \in 1..Len(Combined) :
                            FacetGroup(Combined[k].row) = FacetGroup(Given[i])}) = 1
       /\ \A k \in 1..Len(Combined) :
             /\ SameGroup(Combined[k].row) # {}
             /\ IsGreatestVersion(Combined[k].row["version"], Combined[k].row)
       /\ \A i \in 1..Len(Given) :
             ~IsGreatestVersion(Given[i]["version"], Given[i])
             => \A k \in 1..Len(Combined) :
                   Given[i]["id"] \notin Range(Combined[k].row["id"])

\* two tables gave records of one dataset with different versions, the older
\* one first, and records of another dataset
C4_Witness ==
    /\ "df" \in DOMAIN cr_result
    /\ Len(dfs) >= 2
    /\ Len(Combined) >= 2
    /\ \E i, j \in 1..Len(Given) :
          /\ i < j
          /\ FacetGroup(Given[i]) = FacetGroup(Given[j])
          /\ StrLess(Given[i]["version"], Given[j]["version"])

\* the position at which an id is first given
FirstGiven(id) == CHOOSE i \in 1..Len(Given) :
                     Given[i]["id"] = id /\ \A j \in 1..(i - 1) : Given[j]["id"] # id

\* C9: the id of a row of the output is the list of the ids of the records
\* given that are in the row's facet group and have the group's greatest
\* version, each once, in the order in which they were first given; the
\* row's facets are those of the first of these records; the row has no
\* data_node.
C9_ContributingIds ==
    "df" \in DOMAIN cr_result
    => \A k \in 1..Len(Combined) :
          LET row == Combined[k].row
              ids == row["id"]
          IN  /\ Range(ids) =
                    { Given[i]["id"] : i \in {j \in SameGroup(row) :
                                                IsGreatestVersion(Given[j]["version"], row)} }
              /\ \A a, b \in 1..Len(ids) : a < b => FirstGiven(ids[a]) < FirstGiven(ids[b])
              /\ ids # <<>>
              /\ DOMAIN row = Range(DF_COLUMNS) \ {"data_node"}
              /\ \A c \in Range(COLUMNS) \ {"data_node"} :
                    row[c] = Given[FirstGiven(ids[1])][c]

\* a row lists the ids of two data nodes, and the tables also gave one of
\* these ids twice and a record with an older version of the dataset
C9_Witness ==
    /\ "df" \in DOMAIN cr_result
    /\ \E k \in 1..Len(Combined) :
          /\ Len(Combined[k].row["id"]) >= 2
          /\ \E i, j \in 1..Len(Given) : i # j /\ Given[i]["id"] = Given[j]["id"]
                                         /\ Given[i]["id"] \in Range(Combined[k].row["id"])


(***************************************************************************)
(* Properties of combine_file_info                                         *)
(***************************************************************************)
\* the entries the indices returned, in the order they were returned
Entries ==
    Concat([i \in 1..Len(indices) |->
               IF Raises(indices[i]) THEN <<>> ELSE indices[i].infos])

EntriesOf(path) == SelectSeq(Entries, LAMBDA e : e["path"] = path)

\* the lists the entries of a path have under a key, and their lengths summed
ListsOf(path, key) ==
    LET with == SelectSeq(EntriesOf(path), LAMBDA e : key \in DOMAIN e)
    IN  [i \in 1..Len(with) |-> with[i][key]]

RECURSIVE SumLen(_)
SumLen(lists) == IF lists = <<>> THEN 0 ELSE Len(Head(lists)) + SumLen(Tail(lists))

LinkTypes == UNION {DOMAIN info : info \in FileInfos} \ ScalarKeys

Merged == fi_result.returned

\* C5: the list combine_file_info returns has exactly one record for each
\* path of the entries; the record's list under a link type is the
\* concatenation, in order, of the lists the path's entries have under it,
\* so its length is the sum of their lengths; each scalar is the one of the
\* path's first entry.
C5_MergeCompleteness ==
    "returned" \in DOMAIN fi_result
    => /\ \A i, j \in 1..Len(Merged) : i # j => Merged[i]["path"] # Merged[j]["path"]
       /\ {Merged[i]["path"] : i \in 1..Len(Merged)} =
             {Entries[i]["path"] : i \in 1..Len(Entries)}
       /\ \A i \in 1..Len(Merged) :
             LET path == Merged[i]["path"]
             IN  /\ \A key \in LinkTypes :
                       IF ListsOf(path, key) = <<>> THEN key \notin DOMAIN Merged[i]
                       ELSE /\ key \in DOMAIN Merged[i]
                            /\ Merged[i][key] = Concat(ListsOf(path, key))
                            /\ Len(Merged[i][key]) = SumLen(ListsOf(path, key))
                 /\ \A key \in ScalarKeys :
                       Merged[i][key] = EntriesOf(path)[1][key]

\* two indices returned entries of one path that differ in their checksum
\* and both have mirrors of one link type, and an entry of another path
C5_Witness ==
    /\ "returned" \in DOMAIN fi_result
    /\ Len(Merged) >= 2
    /\ \E i \in 1..Len(Merged) :
          LET es == EntriesOf(Merged[i]["path"])
          IN  /\ Len(es) >= 2
              /\ es[1]["checksum"] # es[2]["checksum"]
              /\ Len(Merged[i]["HTTPServer"]) >= 3
    /\ \E a, b \in 1..Len(indices) : a # b /\ ~Raises(indices[a]) /\ ~Raises(indices[b])

\* C6: whatever the failure of an index's get_file_info, combine_file_info
\* returns, and it returns what it returns for the indices that did not
\* fail, in the same order.
C6_FailingSourceSkipped ==
    fi_result # NotCalled
    => /\ "returned" \in DOMAIN fi_result
       /\ fi_result = combine_file_info(SelectSeq(indices, LAMBDA o : ~Raises(o)))

=============================================================================
